---- MODULE Spec2Model ----
(***************************************************************************)
(* Model of pkg/secrets (Windows): execCommand runs the secret backend     *)
(* command as the low-privilege user datadog_secretuser, relays its stdio  *)
(* through three OS pipes, bounds the captured output and enforces a       *)
(* timeout.  Source: src/unnamed/part_000.                                 *)
(*                                                                         *)
(* Library behaviour the source relies on and the model takes as given:    *)
(*  - os.Process.Wait returns (state, nil) whenever the process has ended, *)
(*    also when it was ended by Kill (TerminateProcess with exit code 1);  *)
(*    it returns an error only when the wait system call itself fails.     *)
(*  - os.File.Close is idempotent on the File: a second Close returns an   *)
(*    error and does not touch the OS handle again.                        *)
(*  - os.Pipe returns two handles that are not inheritable.                *)
(*  - a child created with inheritance receives every handle of the parent *)
(*    that is inheritable at the time of the create call.                  *)
(***************************************************************************)
EXTENDS Integers, Sequences, FiniteSets, TLC

\* ------------------------------------------------------------------ bounds
MaxIn == 1            \* longest input payload
MaxChildOut == 3      \* most bytes a command writes on standard output
MaxChildErr == 1      \* most bytes a command writes on standard error
MaxArgLen == 2        \* longest argument string of the command-line check
MaxCmdLen == 3        \* longest command path of the command-line check
MaxArgs == 2          \* most arguments of the command-line check
MaxFaults == 2        \* most system calls that fail while one call runs
MaxFaultsConc == 1    \* most system calls that fail while two calls run
MaxFaultsLive == 1    \* most system calls that fail in the scheduled call
MaxChildOutLive == 1  \* most bytes the command of the scheduled call writes

\* secretBackendOutputMaxSize: the configured bound of both output buffers.
secretBackendOutputMaxSize == 2

Calls == {1, 2}

\* ------------------------------------------------------------- characters
SP == " "
QT == "\""
BS == "\\"
NUL == "NUL"
WS == {SP}
Chars == {"a", SP, QT, BS}

RECURSIVE Rep(_, _)
Rep(ch, n) == IF n = 0 THEN <<>> ELSE <<ch>> \o Rep(ch, n - 1)

Min(a, b) == IF a < b THEN a ELSE b

\* syscall.EscapeArg, the body of its copy loop: backslashes are copied, the
\* run of backslashes before a double quote is doubled and the quote escaped,
\* and a quoted argument doubles the run of backslashes before its end quote.
RECURSIVE EscBody(_, _, _, _)
EscBody(s, i, slashes, hasSpace) ==
  IF i > Len(s) THEN (IF hasSpace THEN Rep(BS, slashes) \o <<QT>> ELSE <<>>)
  ELSE IF s[i] = BS THEN <<BS>> \o EscBody(s, i + 1, slashes + 1, hasSpace)
  ELSE IF s[i] = QT THEN Rep(BS, slashes) \o <<BS, QT>> \o EscBody(s, i + 1, 0, hasSpace)
  ELSE <<s[i]>> \o EscBody(s, i + 1, 0, hasSpace)

\* syscall.EscapeArg(s)
EscapeArg(s) ==
  IF Len(s) = 0 THEN <<QT, QT>>
  ELSE LET hasSpace == \E i \in 1..Len(s) : s[i] \in WS
           special == \E i \in 1..Len(s) : s[i] \in {QT, BS}
       IN IF ~hasSpace /\ ~special THEN s
          ELSE (IF hasSpace THEN <<QT>> ELSE <<>>) \o EscBody(s, 1, 0, hasSpace)

\* makeCmdLine(cmd, args): cmd is taken as it is, each argument is escaped.
RECURSIVE makeCmdLine(_, _)
makeCmdLine(cmd, args) ==
  IF args = <<>> THEN cmd
  ELSE makeCmdLine(cmd \o <<SP>> \o EscapeArg(Head(args)), Tail(args))

\* The command-line parsing rules of the target OS (CommandLineToArgvW and the
\* C runtime): the program name ends at the first white space outside double
\* quotes and knows no backslash escapes; in the arguments 2n backslashes
\* before a quote give n backslashes and a quote that opens or closes, 2n+1
\* give n backslashes and a literal quote, other backslashes are literal.
RECURSIVE CountBS(_, _)
CountBS(l, i) == IF i <= Len(l) /\ l[i] = BS THEN 1 + CountBS(l, i + 1) ELSE 0

RECURSIVE SplitArgs(_, _), SplitArg(_, _, _, _)
SplitArgs(l, i) ==
  IF i > Len(l) THEN <<>>
  ELSE IF l[i] \in WS THEN SplitArgs(l, i + 1)
  ELSE SplitArg(l, i, FALSE, <<>>)
SplitArg(l, i, inq, cur) ==
  IF i > Len(l) THEN <<cur>>
  ELSE LET n == CountBS(l, i)
           j == i + n
       IN IF n > 0 THEN
            IF j <= Len(l) /\ l[j] = QT
            THEN IF n % 2 = 0 THEN SplitArg(l, j, inq, cur \o Rep(BS, n \div 2))
                 ELSE SplitArg(l, j + 1, inq, cur \o Rep(BS, n \div 2) \o <<QT>>)
            ELSE SplitArg(l, j, inq, cur \o Rep(BS, n))
          ELSE IF l[i] = QT THEN
            IF inq /\ i + 1 <= Len(l) /\ l[i + 1] = QT
            THEN SplitArg(l, i + 2, inq, Append(cur, QT))
            ELSE SplitArg(l, i + 1, ~inq, cur)
          ELSE IF ~inq /\ l[i] \in WS THEN <<cur>> \o SplitArgs(l, i + 1)
          ELSE SplitArg(l, i + 1, inq, Append(cur, l[i]))

RECURSIVE SplitProg(_, _, _, _)
SplitProg(l, i, inq, cur) ==
  IF i > Len(l) THEN <<cur>>
  ELSE IF l[i] = QT THEN SplitProg(l, i + 1, ~inq, cur)
  ELSE IF ~inq /\ l[i] \in WS THEN <<cur>> \o SplitArgs(l, i + 1)
  ELSE SplitProg(l, i + 1, inq, Append(cur, l[i]))

\* The argument vector a process created with this command line observes.
CommandLineToArgv(l) == SplitProg(l, 1, FALSE, <<>>)

\* syscall.UTF16PtrFromString(s) fails when s contains a NUL.
UTF16Fails(s) == \E i \in 1..Len(s) : s[i] = NUL

StrUpTo(n) == UNION {[1..k -> Chars] : k \in 0..n}

\* Command paths: a file name holds no double quote; it may hold spaces and
\* backslashes between its first and last character.
CmdPaths == {s \in UNION {[1..k -> Chars \ {QT}] : k \in 1..MaxCmdLen} :
               s[1] = "a" /\ s[Len(s)] = "a"}

\* ------------------------------------------------------------------ state
VARIABLES
  secretBackendCommand,    \* package variable: the command path
  secretBackendArguments,  \* package variable: the argument list
  forkLock,                \* syscall.ForkLock: 0 when free, else the call holding it
  htab,                    \* the parent's open OS handles: handle -> [obj, inh]
  pipes,                   \* bytes in flight in each pipe, keyed <<call, name>>
  registryReads,           \* number of credential reads done so far
  ctl,                     \* per call: the locals of execCommand / startProcess
  child,                   \* per call: the spawned command
  task,                    \* per call: the relay goroutines and the watcher
  hist,                    \* per call: history of what the call has done
  faultsLeft,              \* environment faults (failing system calls) still to come
  probe                    \* the command line under test: line built, argv observed

vars == <<secretBackendCommand, secretBackendArguments, forkLock, htab, pipes,
          registryReads, ctl, child, task, hist, faultsLeft, probe>>

PipeNames == {"stdin", "stdout", "stderr"}
PipeIds == Calls \X PipeNames

\* Error kinds (section 7 of the specification names them; the source gives the
\* message of each).
NoErr == ""

\* ------------------------------------------------------- the OS handle table
\* The handle the OS hands out to call c, k handles after its first: a value
\* no other handle has.  (The OS may hand out the value of a closed handle
\* again; the model never does, so that a value names one handle for good.)
NewH(c, k) == 100 * c + ctl[c].nalloc + k
Put(t, h, obj, inh) ==
  [x \in DOMAIN t \cup {h} |-> IF x = h THEN [obj |-> obj, inh |-> inh] ELSE t[x]]
Drop(t, H) == [x \in DOMAIN t \ H |-> t[x]]

\* Some handle of the parent, or a running child that inherited one, still
\* refers to this pipe end.
PipeEndOpen(obj) ==
  \/ \E h \in DOMAIN htab : htab[h].obj = obj
  \/ \E d \in Calls : child[d].st = "running" /\ obj \in child[d].inherited

SeqSet(s) == {s[i] : i \in 1..Len(s)}

\* closeFileList(fileList) for call c: File.Close on each; a File already
\* closed is left alone.
closeFileList(c, fileList) == Drop(htab, SeqSet(fileList) \ ctl[c].closed)

\* ----------------------------------------------------------- limitBuffer
\* The bounded output buffer {buf, max}.  Its Write is not part of the source
\* file; section 3 of the specification: len(data) <= maxBytes at all times,
\* bytes beyond the bound are never stored.
LimitWrite(b, p) ==
  [b EXCEPT !.buf = @ \o SubSeq(p, 1, Min(Len(p), b.max - Len(@)))]
\* the Write dropped part of p
LimitOverflows(b, p) == Len(b.buf) + Len(p) > b.max

NewLimitBufferTooBig == [buf |-> <<>>, max |-> secretBackendOutputMaxSize + 1]
\* execCommand: stdout := limitBuffer{buf: &bytes.Buffer{}, max: secretBackendOutputMaxSize}
NewLimitBuffer == [buf |-> <<>>, max |-> secretBackendOutputMaxSize]

\* ------------------------------------------------------ credential source
RegistryStates == {"present", "no_key", "key_unreadable", "no_value", "value_unreadable"}

\* getPasswordFromRegistry against a registry in state reg.
getPasswordFromRegistry(reg) ==
  CASE reg = "no_key" -> [password |-> "", err |-> "CredentialNotFound"]
    [] reg = "key_unreadable" -> [password |-> "", err |-> "CredentialReadError"]
    [] reg \in {"no_value", "value_unreadable"} ->
         [password |-> "", err |-> "CredentialReadError"]
    [] OTHER -> [password |-> "secret", err |-> NoErr]

ReturnedBufferStderr(c) == ctl[c].stderr.buf
ReturnedBufferUnlessCopyError(c) ==
  IF ctl[c].copyError # NoErr THEN <<>> ELSE ctl[c].stdout.buf
\* execCommand: return stdout.buf.Bytes(), nil
ReturnedBuffer(c) == ctl[c].stdout.buf

\* ---------------------------------------------------------- stdin errors
WriteErrnos == {"ERROR_BROKEN_PIPE", "ERROR_NO_DATA", "ERROR_ACCESS_DENIED"}
\* the nil error of io.Copy, as a value of the shape of *os.PathError
NilErr == [op |-> "", path |-> "", errno |-> ""]

skipStdinCopyErrorNever(err) == FALSE
\* skipStdinCopyError(err): err is [op, path, errno]
skipStdinCopyError(err) ==
  /\ err.op = "write" /\ err.path = "|1"
  /\ err.errno \in {"ERROR_BROKEN_PIPE", "ERROR_NO_DATA"}

\* --------------------------------------------------------- classification
ClassifyKeepsBytes(waitErr, state, ctxErr, out) ==
  IF waitErr
  THEN IF ctxErr = "deadline" THEN [bytes |-> <<>>, err |-> "TimeoutError"]
       ELSE [bytes |-> <<>>, err |-> "ProcessWaitError"]
  ELSE IF state # "success" THEN [bytes |-> out, err |-> "NonZeroExitError"]
  ELSE [bytes |-> out, err |-> NoErr]
\* execCommand, its last statements: the result from the wait error, the
\* context's error, the exit state and the stdout buffer.
Classify(waitErr, state, ctxErr, out) ==
  IF waitErr
  THEN IF ctxErr = "deadline" THEN [bytes |-> <<>>, err |-> "TimeoutError"]
       ELSE [bytes |-> <<>>, err |-> "ProcessWaitError"]
  ELSE IF state # "success" THEN [bytes |-> <<>>, err |-> "NonZeroExitError"]
  ELSE [bytes |-> out, err |-> NoErr]

\* ------------------------------------------------------------------- Init
Prefix(s, n) == SubSeq(s, 1, Min(n, Len(s)))
\* Every byte names the call and the stream it belongs to.
OutBytes(c) == [i \in 1..MaxChildOut |-> 100 * c + i]
ErrBytes(c) == [i \in 1..MaxChildErr |-> 100 * c + 50 + i]
InBytes(c) == [i \in 1..MaxIn |-> 100 * c + 70 + i]

Plans(c, maxOut, maxErr, exits) ==
  [out : {Prefix(OutBytes(c), n) : n \in 0..maxOut},
   err : {Prefix(ErrBytes(c), n) : n \in 0..maxErr},
   exit : exits]

NoPlan == [out |-> <<>>, err |-> <<>>, exit |-> "ok"]

InitCtl(pc0, payload) ==
  [pc |-> pc0, inputPayload |-> payload, ctx |-> "active",
   stdout |-> NewLimitBuffer, stderr |-> NewLimitBuffer,
   goroutine |-> <<>>, closeAfterStart |-> <<>>, closeAfterWait |-> <<>>,
   closed |-> {}, cmdline |-> <<>>, fd |-> <<>>, password |-> [secret |-> "", read |-> 0],
   startErr |-> NoErr, pi |-> <<>>, process |-> 0, nalloc |-> 0,
   errch |-> <<>>, waitDone |-> FALSE, state |-> "none", waitErr |-> FALSE,
   copyError |-> NoErr, collected |-> 0,
   result |-> [bytes |-> <<>>, err |-> NoErr]]

InitChild(plan) ==
  [st |-> "none", plan |-> plan, stdio |-> <<>>, inherited |-> {}, argv |-> <<>>,
   cred |-> [secret |-> "", read |-> 0], nout |-> 0, nerr |-> 0, stdin |-> <<>>]

InitTask == [stdin |-> "idle", sent |-> 0, stdout |-> "idle", stderr |-> "idle",
             watcher |-> "idle"]

InitHist == [written |-> [stdout |-> <<>>, stderr |-> <<>>], kills |-> 0,
             created |-> {}, failedAt |-> "", stdinErr |-> NilErr,
             stdinReport |-> "none", reports |-> [n \in PipeNames |-> 0],
             reg |-> "", ctxAtWait |-> ""]

InitGlobals ==
  /\ forkLock = 0
  /\ htab = <<>>
  /\ pipes = [p \in PipeIds |-> <<>>]
  /\ registryReads = 0
  /\ task = [c \in Calls |-> InitTask]
  /\ hist = [c \in Calls |-> InitHist]

InitProbe == probe = [line |-> <<>>, argv |-> <<>>, built |-> FALSE]

\* One call (call 1) with every payload, command behaviour and configuration.
Init ==
  /\ InitGlobals
  /\ faultsLeft = MaxFaults
  /\ InitProbe
  /\ secretBackendCommand \in {<<"a">>, <<"a", NUL>>}
  /\ secretBackendArguments \in {<< <<"a", SP, "a">> >>, << <<NUL>> >>}
  /\ \E payload \in {Prefix(InBytes(1), n) : n \in 0..MaxIn},
        plan \in Plans(1, MaxChildOut, MaxChildErr, {"ok", "fail", "hang"}) :
       /\ ctl = [c \in Calls |-> IF c = 1 THEN InitCtl("pipe_in", payload)
                                  ELSE InitCtl("idle", <<>>)]
       /\ child = [c \in Calls |-> IF c = 1 THEN InitChild(plan) ELSE InitChild(NoPlan)]

\* A system call fails: one of the faults the environment still has in store.
Fault == faultsLeft > 0 /\ faultsLeft' = faultsLeft - 1
NoFault == UNCHANGED faultsLeft

\* ------------------------------------------------------- execCommand: pipes
Obj(c, name, end) == <<c, name, end>>

\* return bytes, err: the deferred cancel() releases the context.
Return(c, bytes, err) ==
  ctl' = [ctl EXCEPT ![c].pc = "done",
                     ![c].result = [bytes |-> bytes, err |-> err],
                     ![c].ctx = IF @ = "active" THEN "canceled" ELSE @]

\* os.Pipe inside setInputPipe / setOutputPipe: the read end pr and the write
\* end pw of a new pipe, as handles of the table after the call.
PipeR(c) == NewH(c, 1)
PipeW(c) == NewH(c, 2)
WithPipe(t, name, c) ==
  Put(Put(t, PipeR(c), Obj(c, name, "r"), FALSE), PipeW(c), Obj(c, name, "w"), FALSE)

\* setInputPipe(stdin, ...): the goroutine is queued, pr is closed after the
\* start and pw after the wait.  A failing os.Pipe returns the error at once.
setInputPipe(c) ==
  /\ ctl[c].pc = "pipe_in"
  /\ \/ /\ htab' = WithPipe(htab, "stdin", c)
        /\ ctl' = [ctl EXCEPT ![c].pc = "pipe_out",
                              ![c].goroutine = Append(@, "stdin"),
                              ![c].nalloc = @ + 2,
                              ![c].closeAfterStart = Append(@, PipeR(c)),
                              ![c].closeAfterWait = Append(@, PipeW(c))]
        /\ hist' = [hist EXCEPT ![c].created = @ \cup {PipeR(c), PipeW(c)}]
        /\ NoFault
     \/ /\ Fault
        /\ Return(c, <<>>, "PipeCreationError")
        /\ hist' = [hist EXCEPT ![c].failedAt = "pipe_in"]
        /\ UNCHANGED htab
  /\ UNCHANGED <<secretBackendCommand, secretBackendArguments, forkLock, pipes,
                 registryReads, child, task, probe>>

\* setOutputPipe(stdout, ...) and setOutputPipe(stderr, ...): pw is closed after
\* the start and pr after the wait.  When os.Pipe fails execCommand returns the
\* error as it stands.
setOutputPipe(c, name) ==
  /\ ctl[c].pc = (IF name = "stdout" THEN "pipe_out" ELSE "pipe_err")
  /\ \/ /\ htab' = WithPipe(htab, name, c)
        /\ ctl' = [ctl EXCEPT ![c].pc = IF name = "stdout" THEN "pipe_err" ELSE "start",
                              ![c].goroutine = Append(@, name),
                              ![c].nalloc = @ + 2,
                              ![c].closeAfterStart = Append(@, PipeW(c)),
                              ![c].closeAfterWait = Append(@, PipeR(c))]
        /\ hist' = [hist EXCEPT ![c].created = @ \cup {PipeR(c), PipeW(c)}]
        /\ NoFault
     \/ /\ Fault
        /\ Return(c, <<>>, "PipeCreationError")
        /\ hist' = [hist EXCEPT ![c].failedAt = ctl[c].pc]
        /\ UNCHANGED htab
  /\ UNCHANGED <<secretBackendCommand, secretBackendArguments, forkLock, pipes,
                 registryReads, child, task, probe>>

\* ----------------------------------------------------------- startProcess
FdsFromCloseAfterWait(c) == ctl[c].closeAfterWait
\* execCommand: fds, the handles of closeAfterStart, become attr.Files
Fds(c) == ctl[c].closeAfterStart

\* The two UTF16PtrFromString conversions around makeCmdLine; neither error
\* path has taken the lock yet.
startProcessEncode(c) ==
  /\ ctl[c].pc = "start"
  /\ LET cmdline == makeCmdLine(secretBackendCommand, secretBackendArguments)
     IN IF UTF16Fails(secretBackendCommand) \/ UTF16Fails(cmdline)
        THEN /\ ctl' = [ctl EXCEPT ![c].pc = "start_failed",
                                   ![c].startErr = "CredentialEncodingError"]
             /\ hist' = [hist EXCEPT ![c].failedAt = "encode"]
        ELSE /\ ctl' = [ctl EXCEPT ![c].pc = "lock", ![c].cmdline = cmdline]
             /\ UNCHANGED hist
  /\ UNCHANGED <<secretBackendCommand, secretBackendArguments, faultsLeft, forkLock, htab, pipes,
                 registryReads, child, task, probe>>

ForkLockIgnored(c) == TRUE
\* syscall.ForkLock.Lock() returns only when no other call holds the lock
ForkLockFree(c) == forkLock = 0

ForkLockLock(c) ==
  /\ ctl[c].pc = "lock"
  /\ ForkLockFree(c)
  /\ forkLock' = c
  /\ ctl' = [ctl EXCEPT ![c].pc = "dup"]
  /\ UNCHANGED <<secretBackendCommand, secretBackendArguments, faultsLeft, htab, pipes,
                 registryReads, child, task, hist, probe>>

\* One round of the loop over attr.Files: an inheritable duplicate of
\* attr.Files[i], closed again by a deferred CloseHandle; a failing
\* DuplicateHandle returns.
DuplicateHandle(c) ==
  /\ ctl[c].pc = "dup"
  /\ LET i == Len(ctl[c].fd) + 1
         src == Fds(c)[i]
         h == NewH(c, 1)
     IN \/ /\ src \in DOMAIN htab
           /\ htab' = Put(htab, h, htab[src].obj, TRUE)
           /\ ctl' = [ctl EXCEPT ![c].fd = Append(@, h),
                                 ![c].nalloc = @ + 1,
                                 ![c].pc = IF i = Len(Fds(c)) THEN "getpw" ELSE "dup"]
           /\ UNCHANGED hist
           /\ NoFault
        \/ /\ Fault \/ (src \notin DOMAIN htab /\ NoFault)
           /\ ctl' = [ctl EXCEPT ![c].pc = "defer_close",
                                 ![c].startErr = "HandleDuplicationError"]
           /\ hist' = [hist EXCEPT ![c].failedAt = "dup"]
           /\ UNCHANGED htab
  /\ UNCHANGED <<secretBackendCommand, secretBackendArguments, forkLock, pipes,
                 registryReads, child, task, probe>>

\* password, err := getPasswordFromRegistry(), read afresh by every call.
GetPassword(c) ==
  /\ ctl[c].pc = "getpw"
  /\ \E reg \in RegistryStates :
       LET r == getPasswordFromRegistry(reg)
       IN IF r.err # NoErr
          THEN /\ Fault
               /\ ctl' = [ctl EXCEPT ![c].pc = "defer_close", ![c].startErr = r.err]
               /\ hist' = [hist EXCEPT ![c].failedAt = "getpw", ![c].reg = reg]
          ELSE /\ NoFault
               /\ ctl' = [ctl EXCEPT ![c].pc = "create",
                            ![c].password = [secret |-> r.password,
                                             read |-> registryReads + 1]]
               /\ hist' = [hist EXCEPT ![c].reg = reg]
  /\ registryReads' = registryReads + 1
  /\ UNCHANGED <<secretBackendCommand, secretBackendArguments, forkLock, htab, pipes,
                 child, task, probe>>

\* procCreateProcessWithLogonW.Call(...): on success the command runs with the
\* duplicates as its standard handles, holds every handle inheritable at this
\* moment, and pi carries a process and a thread handle; res == 0 returns.
CreateProcessWithLogonW(c) ==
  /\ ctl[c].pc = "create"
  /\ \/ LET hp == NewH(c, 1)
            ht == NewH(c, 2)
        IN /\ htab' = Put(Put(htab, hp, Obj(c, "process", "pi"), FALSE),
                          ht, Obj(c, "thread", "pi"), FALSE)
           /\ ctl' = [ctl EXCEPT ![c].pc = "find", ![c].pi = <<hp, ht>>,
                                 ![c].nalloc = @ + 2]
           /\ child' = [child EXCEPT
                ![c].st = "running",
                ![c].stdio = [i \in 1..Len(ctl[c].fd) |-> htab[ctl[c].fd[i]].obj],
                ![c].inherited = {htab[h].obj : h \in {x \in DOMAIN htab : htab[x].inh}},
                ![c].argv = CommandLineToArgv(ctl[c].cmdline),
                ![c].cred = ctl[c].password]
           /\ UNCHANGED hist
           /\ NoFault
     \/ /\ Fault
        /\ ctl' = [ctl EXCEPT ![c].pc = "defer_close",
                              ![c].startErr = "ProcessCreationError"]
        /\ hist' = [hist EXCEPT ![c].failedAt = "create"]
        /\ UNCHANGED <<htab, child>>
  /\ UNCHANGED <<secretBackendCommand, secretBackendArguments, forkLock, pipes,
                 registryReads, task, probe>>

\* os.FindProcess(pi.ProcessId): a handle of its own to the process, or an error.
FindProcess(c) ==
  /\ ctl[c].pc = "find"
  /\ \/ /\ htab' = Put(htab, NewH(c, 1), Obj(c, "process", "os"), FALSE)
        /\ ctl' = [ctl EXCEPT ![c].pc = "defer_close", ![c].process = NewH(c, 1),
                              ![c].nalloc = @ + 1]
        /\ UNCHANGED hist
        /\ NoFault
     \/ /\ Fault
        /\ ctl' = [ctl EXCEPT ![c].pc = "defer_close",
                              ![c].startErr = "ProcessLookupError"]
        /\ hist' = [hist EXCEPT ![c].failedAt = "find"]
        /\ UNCHANGED htab
  /\ UNCHANGED <<secretBackendCommand, secretBackendArguments, forkLock, pipes,
                 registryReads, child, task, probe>>

DeferredHandlesButFirst(c) == {ctl[c].fd[i] : i \in 2..Len(ctl[c].fd)}
\* one deferred syscall.CloseHandle(fd[i]) for every duplicate made
DeferredHandles(c) == SeqSet(ctl[c].fd)

\* The deferred syscall.CloseHandle(fd[i]) calls, last one first.
DeferCloseHandle(c) ==
  /\ ctl[c].pc = "defer_close"
  /\ htab' = Drop(htab, DeferredHandles(c))
  /\ ctl' = [ctl EXCEPT ![c].pc = "defer_unlock"]
  /\ UNCHANGED <<secretBackendCommand, secretBackendArguments, faultsLeft, forkLock, pipes,
                 registryReads, child, task, hist, probe>>

\* The deferred syscall.ForkLock.Unlock(), the last deferred call to run.
ForkLockUnlock(c) ==
  /\ ctl[c].pc = "defer_unlock"
  /\ forkLock' = 0
  /\ ctl' = [ctl EXCEPT ![c].pc = IF ctl[c].startErr = NoErr THEN "started"
                                  ELSE "start_failed"]
  /\ UNCHANGED <<secretBackendCommand, secretBackendArguments, faultsLeft, htab, pipes,
                 registryReads, child, task, hist, probe>>

\* ---------------------------------------------- execCommand after the launch
\* err != nil from startProcess: both lists are closed and the error returned.
StartFailed(c) ==
  /\ ctl[c].pc = "start_failed"
  /\ htab' = closeFileList(c, ctl[c].closeAfterStart \o ctl[c].closeAfterWait)
  /\ ctl' = [ctl EXCEPT ![c].pc = "done",
                        ![c].closed = @ \cup SeqSet(ctl[c].closeAfterStart)
                                        \cup SeqSet(ctl[c].closeAfterWait),
                        ![c].result = [bytes |-> <<>>, err |-> ctl[c].startErr],
                        ![c].ctx = IF @ = "active" THEN "canceled" ELSE @]
  /\ UNCHANGED <<secretBackendCommand, secretBackendArguments, faultsLeft, forkLock, pipes,
                 registryReads, child, task, hist, probe>>

CloseAfterStartBeforeLaunch(c) == ctl[c].pc \in {"start", "started"}
\* closeFileList(closeAfterStart) comes after startProcess returned no error
CloseAfterStartReached(c) == ctl[c].pc = "started"

\* closeFileList(closeAfterStart) after a successful start.
CloseAfterStart(c) ==
  /\ CloseAfterStartReached(c)
  /\ htab' = closeFileList(c, ctl[c].closeAfterStart)
  /\ ctl' = [ctl EXCEPT ![c].pc = "spawn",
                        ![c].closed = @ \cup SeqSet(ctl[c].closeAfterStart)]
  /\ UNCHANGED <<secretBackendCommand, secretBackendArguments, faultsLeft, forkLock, pipes,
                 registryReads, child, task, hist, probe>>

\* errch is made, one goroutine is started per queued function, waitDone is
\* made and the watcher goroutine is started.
StartGoroutines(c) ==
  /\ ctl[c].pc = "spawn"
  /\ ctl' = [ctl EXCEPT ![c].pc = "wait", ![c].errch = <<>>, ![c].waitDone = FALSE]
  /\ task' = [task EXCEPT ![c] = [stdin |-> "copy", sent |-> 0, stdout |-> "copy",
                                  stderr |-> "copy", watcher |-> "select"]]
  /\ UNCHANGED <<secretBackendCommand, secretBackendArguments, faultsLeft, forkLock, htab, pipes,
                 registryReads, child, hist, probe>>

\* state, err := process.Wait(): returns once the process has ended, with its
\* exit state and no error, and releases the process handle; or the wait
\* itself fails.
ProcessWait(c) ==
  /\ ctl[c].pc = "wait"
  /\ \/ /\ child[c].st \in {"exited", "killed"}
        /\ ctl' = [ctl EXCEPT ![c].pc = "close_waitdone",
                     ![c].state = IF child[c].st = "exited" /\ child[c].plan.exit = "ok"
                                  THEN "success" ELSE "failure"]
        /\ htab' = Drop(htab, {ctl[c].process})
        /\ NoFault
     \/ /\ Fault
        /\ ctl' = [ctl EXCEPT ![c].pc = "close_waitdone", ![c].waitErr = TRUE]
        /\ UNCHANGED htab
  /\ hist' = [hist EXCEPT ![c].ctxAtWait = ctl[c].ctx]
  /\ UNCHANGED <<secretBackendCommand, secretBackendArguments, forkLock, pipes,
                 registryReads, child, task, probe>>

\* close(waitDone)
CloseWaitDone(c) ==
  /\ ctl[c].pc = "close_waitdone"
  /\ ctl' = [ctl EXCEPT ![c].pc = "collect", ![c].waitDone = TRUE]
  /\ UNCHANGED <<secretBackendCommand, secretBackendArguments, faultsLeft, forkLock, htab, pipes,
                 registryReads, child, task, hist, probe>>

RelayCountButOne(c) == Len(ctl[c].goroutine) - 1
\* "for range goroutine": as many receives as there are relay functions
RelayCount(c) == Len(ctl[c].goroutine)

\* One round of "for range goroutine": a receive from errch; the first error
\* that is not nil is kept in copyError.
Collect(c) ==
  /\ ctl[c].pc = "collect"
  /\ ctl[c].errch # <<>>
  /\ ctl' = [ctl EXCEPT ![c].errch = Tail(@),
                        ![c].copyError = IF @ = NoErr THEN Head(ctl[c].errch) ELSE @,
                        ![c].collected = @ + 1,
                        ![c].pc = IF ctl[c].collected + 1 = RelayCount(c)
                                  THEN "close_after_wait" ELSE "collect"]
  /\ UNCHANGED <<secretBackendCommand, secretBackendArguments, faultsLeft, forkLock, htab, pipes,
                 registryReads, child, task, hist, probe>>

CloseAfterWaitBeforeCollect(c) == ctl[c].pc \in {"collect", "close_after_wait"}
\* closeFileList(closeAfterWait) comes after the loop that receives from errch
CloseAfterWaitReached(c) == ctl[c].pc = "close_after_wait"

\* closeFileList(closeAfterWait)
CloseAfterWait(c) ==
  /\ CloseAfterWaitReached(c)
  /\ htab' = closeFileList(c, ctl[c].closeAfterWait)
  /\ ctl' = [ctl EXCEPT ![c].pc = "classify",
                        ![c].closed = @ \cup SeqSet(ctl[c].closeAfterWait)]
  /\ UNCHANGED <<secretBackendCommand, secretBackendArguments, faultsLeft, forkLock, pipes,
                 registryReads, child, task, hist, probe>>

\* The final if / else if / return.
ClassifyAndReturn(c) ==
  /\ ctl[c].pc = "classify"
  /\ LET r == Classify(ctl[c].waitErr, ctl[c].state, ctl[c].ctx, ReturnedBuffer(c))
     IN Return(c, r.bytes, r.err)
  /\ UNCHANGED <<secretBackendCommand, secretBackendArguments, faultsLeft, forkLock, htab, pipes,
                 registryReads, child, task, hist, probe>>

\* The deadline of context.WithTimeout passes while the call is under way.
DeadlineElapses(c) ==
  /\ ctl[c].pc \notin {"idle", "done"}
  /\ ctl[c].ctx = "active"
  /\ ctl' = [ctl EXCEPT ![c].ctx = "deadline"]
  /\ UNCHANGED <<secretBackendCommand, secretBackendArguments, faultsLeft, forkLock, htab, pipes,
                 registryReads, child, task, hist, probe>>

\* ------------------------------------------------------------- goroutines
RelayErr(e) == IF e = NilErr THEN NoErr ELSE "CopyError"

\* The end of the stdin goroutine: io.Copy returned err0; a skipped error
\* becomes nil; pw.Close(); the result goes to errch.
StdinFinish(c, err0) ==
  LET pw == ctl[c].closeAfterWait[1]
      err == IF skipStdinCopyError(err0) THEN NilErr ELSE err0
  IN /\ htab' = closeFileList(c, <<pw>>)
     /\ ctl' = [ctl EXCEPT ![c].closed = @ \cup {pw},
                           ![c].errch = Append(@, RelayErr(err))]
     /\ task' = [task EXCEPT ![c].stdin = "done"]
     /\ hist' = [hist EXCEPT ![c].stdinErr = err0,
                             ![c].stdinReport = RelayErr(err),
                             ![c].reports["stdin"] = @ + 1]
     /\ UNCHANGED pipes

\* The stdin goroutine, io.Copy(pw, r): a write of the next byte of the
\* payload; a write to a pipe nobody can read from fails with
\* ERROR_BROKEN_PIPE or ERROR_NO_DATA, any write may fail otherwise.
StdinCopy(c) ==
  /\ task[c].stdin = "copy"
  /\ LET n == task[c].sent
         payload == ctl[c].inputPayload
     IN IF n = Len(payload) THEN StdinFinish(c, NilErr) /\ NoFault
        ELSE \/ /\ PipeEndOpen(Obj(c, "stdin", "r"))
                /\ pipes' = [pipes EXCEPT ![<<c, "stdin">>] = Append(@, payload[n + 1])]
                /\ task' = [task EXCEPT ![c].sent = n + 1]
                /\ UNCHANGED <<htab, ctl, hist>>
                /\ NoFault
             \/ \E errno \in WriteErrnos :
                  /\ IF errno \in {"ERROR_BROKEN_PIPE", "ERROR_NO_DATA"}
                     THEN ~PipeEndOpen(Obj(c, "stdin", "r")) /\ NoFault
                     ELSE Fault
                  /\ StdinFinish(c, [op |-> "write", path |-> "|1", errno |-> errno])
  /\ UNCHANGED <<secretBackendCommand, secretBackendArguments, forkLock,
                 registryReads, child, probe>>

\* The end of an output goroutine: pr.Close(); the result goes to errch.
OutputFinish(c, name, err) ==
  LET pr == ctl[c].closeAfterWait[IF name = "stdout" THEN 2 ELSE 3]
  IN /\ htab' = closeFileList(c, <<pr>>)
     /\ task' = [task EXCEPT ![c][name] = "done"]
     /\ hist' = [hist EXCEPT ![c].reports[name] = @ + 1]
     /\ ctl' = [ctl EXCEPT ![c].closed = @ \cup {pr},
                           ![c].errch = Append(@, RelayErr(err))]
     /\ UNCHANGED pipes

\* An output goroutine, io.Copy(w, pr): what the pipe holds is read and
\* written to the bounded buffer; a Write that cannot store all of it either
\* drops the rest or stops the copy with an error; the copy ends at end of
\* file, when the pipe is empty and no write end is left.
OutputCopy(c, name) ==
  /\ task[c][name] = "copy"
  /\ LET chunk == pipes[<<c, name>>]
     IN IF chunk # <<>>
        THEN /\ pipes' = [pipes EXCEPT ![<<c, name>>] = <<>>]
             /\ \/ /\ ctl' = [ctl EXCEPT ![c][name] = LimitWrite(@, chunk)]
                   /\ hist' = [hist EXCEPT ![c].written[name] = @ \o chunk]
                   /\ UNCHANGED <<htab, task>>
                \/ /\ LimitOverflows(ctl[c][name], chunk)
                   /\ hist' = [hist EXCEPT ![c].written[name] = @ \o chunk,
                                           ![c].reports[name] = @ + 1]
                   /\ LET pr == ctl[c].closeAfterWait[IF name = "stdout" THEN 2 ELSE 3]
                      IN /\ htab' = closeFileList(c, <<pr>>)
                         /\ ctl' = [ctl EXCEPT ![c][name] = LimitWrite(@, chunk),
                                               ![c].closed = @ \cup {pr},
                                               ![c].errch = Append(@, "CopyError")]
                   /\ task' = [task EXCEPT ![c][name] = "done"]
        ELSE /\ ~PipeEndOpen(Obj(c, name, "w"))
             /\ OutputFinish(c, name, NilErr)
  /\ UNCHANGED <<secretBackendCommand, secretBackendArguments, faultsLeft, forkLock,
                 registryReads, child, probe>>

\* The watcher, case <-ctx.Done(): process.Kill().  Kill ends a process that
\* is still running and is an error otherwise.
WatcherKill(c) ==
  /\ task[c].watcher = "select"
  /\ ctl[c].ctx # "active"
  /\ task' = [task EXCEPT ![c].watcher = "done"]
  /\ child' = [child EXCEPT ![c].st = IF @ = "running" THEN "killed" ELSE @]
  /\ hist' = [hist EXCEPT ![c].kills = @ + 1]
  /\ UNCHANGED <<secretBackendCommand, secretBackendArguments, faultsLeft, forkLock, htab, pipes,
                 registryReads, ctl, probe>>

\* The watcher, case <-waitDone.
WatcherWaitDone(c) ==
  /\ task[c].watcher = "select"
  /\ ctl[c].waitDone
  /\ task' = [task EXCEPT ![c].watcher = "done"]
  /\ UNCHANGED <<secretBackendCommand, secretBackendArguments, faultsLeft, forkLock, htab, pipes,
                 registryReads, ctl, child, hist, probe>>

\* ------------------------------------------------------------ the command
StdioIndex(name) == CASE name = "stdin" -> 1 [] name = "stdout" -> 2 [] OTHER -> 3

\* The command writes the next byte of its output on its standard output or
\* standard error handle; the byte is lost when nothing can read the pipe.
ChildWrite(c, name) ==
  /\ child[c].st = "running"
  /\ LET n == IF name = "stdout" THEN child[c].nout ELSE child[c].nerr
         data == IF name = "stdout" THEN child[c].plan.out ELSE child[c].plan.err
         to == child[c].stdio[StdioIndex(name)]
     IN /\ n < Len(data)
        /\ child' = [child EXCEPT ![c].nout = IF name = "stdout" THEN @ + 1 ELSE @,
                                  ![c].nerr = IF name = "stderr" THEN @ + 1 ELSE @]
        /\ IF to[3] = "w" /\ PipeEndOpen(Obj(to[1], to[2], "r"))
           THEN pipes' = [pipes EXCEPT ![<<to[1], to[2]>>] = Append(@, data[n + 1])]
           ELSE UNCHANGED pipes
  /\ UNCHANGED <<secretBackendCommand, secretBackendArguments, faultsLeft, forkLock, htab,
                 registryReads, ctl, task, hist, probe>>

\* The command reads what its standard input holds.
ChildRead(c) ==
  /\ child[c].st = "running"
  /\ LET from == child[c].stdio[1]
     IN /\ from[3] = "r"
        /\ pipes[<<from[1], from[2]>>] # <<>>
        /\ child' = [child EXCEPT ![c].stdin = @ \o pipes[<<from[1], from[2]>>]]
        /\ pipes' = [pipes EXCEPT ![<<from[1], from[2]>>] = <<>>]
  /\ UNCHANGED <<secretBackendCommand, secretBackendArguments, faultsLeft, forkLock, htab,
                 registryReads, ctl, task, hist, probe>>

\* The command ends by itself once it has written its output; one that hangs
\* never does.
ChildExit(c) ==
  /\ child[c].st = "running"
  /\ child[c].plan.exit # "hang"
  /\ child[c].nout = Len(child[c].plan.out)
  /\ child[c].nerr = Len(child[c].plan.err)
  /\ child' = [child EXCEPT ![c].st = "exited"]
  /\ UNCHANGED <<secretBackendCommand, secretBackendArguments, faultsLeft, forkLock, htab, pipes,
                 registryReads, ctl, task, hist, probe>>

\* ------------------------------------------------------------------- Next
Step(c) ==
  \/ setInputPipe(c)
  \/ \E name \in {"stdout", "stderr"} : setOutputPipe(c, name)
  \/ startProcessEncode(c)
  \/ ForkLockLock(c)
  \/ DuplicateHandle(c)
  \/ GetPassword(c)
  \/ CreateProcessWithLogonW(c)
  \/ FindProcess(c)
  \/ DeferCloseHandle(c)
  \/ ForkLockUnlock(c)
  \/ StartFailed(c)
  \/ CloseAfterStart(c)
  \/ StartGoroutines(c)
  \/ ProcessWait(c)
  \/ CloseWaitDone(c)
  \/ Collect(c)
  \/ CloseAfterWait(c)
  \/ ClassifyAndReturn(c)
  \/ DeadlineElapses(c)
  \/ StdinCopy(c)
  \/ \E name \in {"stdout", "stderr"} : OutputCopy(c, name)
  \/ WatcherKill(c)
  \/ WatcherWaitDone(c)
  \/ \E name \in {"stdout", "stderr"} : ChildWrite(c, name)
  \/ ChildRead(c)
  \/ ChildExit(c)

Next == \E c \in {1} : Step(c)

Spec == Init /\ [][Next]_vars

\* Two calls at once, each with an empty payload and a command that writes
\* one byte of its own and ends; no deadline passes.
InitConc ==
  /\ InitGlobals
  /\ faultsLeft = MaxFaultsConc
  /\ InitProbe
  /\ secretBackendCommand = <<"a">>
  /\ secretBackendArguments = << <<"a", SP, "a">> >>
  /\ ctl = [c \in Calls |-> InitCtl("pipe_in", <<>>)]
  /\ child = [c \in Calls |->
                InitChild([out |-> Prefix(OutBytes(c), 1), err |-> <<>>, exit |-> "ok"])]

StepConc(c) ==
  \/ setInputPipe(c)
  \/ \E name \in {"stdout", "stderr"} : setOutputPipe(c, name)
  \/ startProcessEncode(c)
  \/ ForkLockLock(c)
  \/ DuplicateHandle(c)
  \/ GetPassword(c)
  \/ CreateProcessWithLogonW(c)
  \/ FindProcess(c)
  \/ DeferCloseHandle(c)
  \/ ForkLockUnlock(c)
  \/ StartFailed(c)
  \/ CloseAfterStart(c)
  \/ StartGoroutines(c)
  \/ ProcessWait(c)
  \/ CloseWaitDone(c)
  \/ Collect(c)
  \/ CloseAfterWait(c)
  \/ ClassifyAndReturn(c)
  \/ StdinCopy(c)
  \/ \E name \in {"stdout", "stderr"} : OutputCopy(c, name)
  \/ WatcherWaitDone(c)
  \/ \E name \in {"stdout", "stderr"} : ChildWrite(c, name)
  \/ ChildExit(c)

NextConc == \E c \in Calls : StepConc(c)

SpecConc == InitConc /\ [][NextConc]_vars

\* ---------------------------------------------------- one call, scheduled
\* One call with a valid configuration; the command writes at most
\* MaxChildOutLive bytes and then ends by itself or hangs; at most
\* MaxFaultsLive system calls fail.
InitLive ==
  /\ InitGlobals
  /\ faultsLeft = MaxFaultsLive
  /\ InitProbe
  /\ secretBackendCommand = <<"a">>
  /\ secretBackendArguments = << <<"a", SP, "a">> >>
  /\ \E payload \in {Prefix(InBytes(1), n) : n \in 0..MaxIn},
        plan \in Plans(1, MaxChildOutLive, 0, {"ok", "hang"}) :
       /\ ctl = [c \in Calls |-> IF c = 1 THEN InitCtl("pipe_in", payload)
                                  ELSE InitCtl("idle", <<>>)]
       /\ child = [c \in Calls |-> IF c = 1 THEN InitChild(plan) ELSE InitChild(NoPlan)]

\* The goroutine that runs execCommand.
Controller(c) ==
  \/ setInputPipe(c)
  \/ \E name \in {"stdout", "stderr"} : setOutputPipe(c, name)
  \/ startProcessEncode(c)
  \/ ForkLockLock(c)
  \/ DuplicateHandle(c)
  \/ GetPassword(c)
  \/ CreateProcessWithLogonW(c)
  \/ FindProcess(c)
  \/ DeferCloseHandle(c)
  \/ ForkLockUnlock(c)
  \/ StartFailed(c)
  \/ CloseAfterStart(c)
  \/ StartGoroutines(c)
  \/ ProcessWait(c)
  \/ CloseWaitDone(c)
  \/ Collect(c)
  \/ CloseAfterWait(c)
  \/ ClassifyAndReturn(c)
\* The watcher goroutine.
Watcher(c) == WatcherKill(c) \/ WatcherWaitDone(c)
\* The command.
Command(c) ==
  \/ \E name \in {"stdout", "stderr"} : ChildWrite(c, name)
  \/ ChildRead(c)
  \/ ChildExit(c)

\* The Go scheduler runs every goroutine that can take a step, the operating
\* system runs the command, and the timer of context.WithTimeout fires.
Fairness ==
  /\ WF_vars(Controller(1))
  /\ WF_vars(StdinCopy(1))
  /\ \A name \in {"stdout", "stderr"} : WF_vars(OutputCopy(1, name))
  /\ WF_vars(Watcher(1))
  /\ WF_vars(Command(1))
  /\ WF_vars(DeadlineElapses(1))

SpecLive == InitLive /\ [][Next]_vars /\ Fairness

\* ------------------------------------------------- the command line alone
\* No call runs; the configuration ranges over every command path and every
\* argument list of the bounded alphabet.
InitCmd ==
  /\ InitGlobals
  /\ InitProbe
  /\ faultsLeft = 0
  /\ secretBackendCommand \in CmdPaths
  /\ secretBackendArguments \in UNION {[1..k -> StrUpTo(MaxArgLen)] : k \in 0..MaxArgs}
  /\ ctl = [c \in Calls |-> InitCtl("idle", <<>>)]
  /\ child = [c \in Calls |-> InitChild(NoPlan)]

\* startProcess builds cmdline with makeCmdLine and hands it to the create
\* call; the new process splits it into its argument vector.
BuildCmdLine ==
  /\ ~probe.built
  /\ LET cmdline == makeCmdLine(secretBackendCommand, secretBackendArguments)
     IN probe' = [line |-> cmdline, argv |-> CommandLineToArgv(cmdline), built |-> TRUE]
  /\ UNCHANGED <<secretBackendCommand, secretBackendArguments, forkLock, htab, pipes,
                 registryReads, ctl, child, task, hist, faultsLeft>>

NextCmd == BuildCmdLine

SpecCmd == InitCmd /\ [][NextCmd]_vars

\* ================================================================ claims
Truncate(s) == Prefix(s, secretBackendOutputMaxSize)
PipeHandlesOpen(c) ==
  {h \in DOMAIN htab : htab[h].obj[1] = c /\ htab[h].obj[2] \in PipeNames}
Started(c) == ctl[c].pc \in {"started", "spawn", "wait", "close_waitdone", "collect",
                             "close_after_wait", "classify"}
             \/ (ctl[c].pc = "done" /\ hist[c].failedAt = "")
Returned(c) == ctl[c].pc = "done"

\* C1: when the deadline passes while the command still runs, the watcher
\* ends the command and execCommand returns the timeout error, never the
\* "exited with failure status" error, the wait error or success.
C1_KillPathReturnsTimeout ==
  \A c \in Calls :
    (Returned(c) /\ ctl[c].ctx = "deadline" /\ child[c].st = "killed" /\ hist[c].kills > 0)
      => ctl[c].result.err = "TimeoutError"

\* C2: when the process was started and the wait reports that it ended with
\* success, execCommand returns no error and the bytes the command wrote on
\* standard output, cut to secretBackendOutputMaxSize; nothing written on
\* standard error is among them.
C2_SuccessReturnsStdout ==
  \A c \in Calls :
    (Returned(c) /\ hist[c].failedAt = "" /\ ~ctl[c].waitErr /\ ctl[c].state = "success")
      => /\ ctl[c].result.err = NoErr
         /\ ctl[c].result.bytes = Truncate(child[c].plan.out)
         /\ SeqSet(ctl[c].result.bytes) \cap SeqSet(child[c].plan.err) = {}

C2_Witness ==
  \E c \in Calls :
    /\ Returned(c) /\ ctl[c].state = "success" /\ ~ctl[c].waitErr
    /\ Len(child[c].plan.out) > secretBackendOutputMaxSize
    /\ hist[c].written.stderr # <<>>
    /\ ctl[c].result.err = NoErr
    /\ Len(ctl[c].result.bytes) = secretBackendOutputMaxSize

\* C3: when the command ends by itself with a failure status and the wait
\* reports no error, execCommand returns the "exited with failure status"
\* error and no bytes, whatever the stdout buffer holds.
C3_FailureStatusReturnsNoBytes ==
  \A c \in Calls :
    (Returned(c) /\ hist[c].failedAt = "" /\ ~ctl[c].waitErr
       /\ child[c].st = "exited" /\ ctl[c].state = "failure")
      => ctl[c].result = [bytes |-> <<>>, err |-> "NonZeroExitError"]

C3_Witness ==
  \E c \in Calls :
    /\ Returned(c) /\ ~ctl[c].waitErr /\ child[c].st = "exited"
    /\ ctl[c].state = "failure" /\ ctl[c].ctx # "deadline"
    /\ ctl[c].stdout.buf # <<>>
    /\ ctl[c].result = [bytes |-> <<>>, err |-> "NonZeroExitError"]

\* C4: when execCommand returns an error that arose before or inside the
\* launch step, that call has created no child process.
C4_LaunchErrorMeansNoChild ==
  \A c \in Calls :
    (Returned(c) /\ hist[c].failedAt # "") => child[c].st = "none"

\* C5: after a failure before the process is started, execCommand returns
\* with every pipe end it created closed, no relay task started and no bytes.
C5_FailureBeforeStartCleansUp ==
  \A c \in Calls :
    (Returned(c) /\ hist[c].failedAt \notin {"", "find"})
      => /\ PipeHandlesOpen(c) = {}
         /\ task[c].stdin = "idle" /\ task[c].stdout = "idle" /\ task[c].stderr = "idle"
         /\ ctl[c].result.bytes = <<>>

\* C6: when the write of the input relay fails with a broken-pipe or no-data
\* error, the relay reports success; and when the command ended with success,
\* execCommand returns success with the captured stdout bytes.
C6_BrokenStdinIsBenign ==
  \A c \in Calls :
    (hist[c].stdinErr.errno \in {"ERROR_BROKEN_PIPE", "ERROR_NO_DATA"})
      => /\ hist[c].stdinReport = NoErr
         /\ (Returned(c) /\ ~ctl[c].waitErr /\ ctl[c].state = "success")
              => ctl[c].result = [bytes |-> ctl[c].stdout.buf, err |-> NoErr]

C6_Witness ==
  \E c \in Calls :
    /\ Returned(c) /\ ctl[c].state = "success" /\ ~ctl[c].waitErr
    /\ hist[c].stdinErr.errno = "ERROR_BROKEN_PIPE"
    /\ task[c].sent < Len(ctl[c].inputPayload)
    /\ ctl[c].result.err = NoErr /\ ctl[c].result.bytes # <<>>

\* C7: at most one call at a time is between taking and releasing the
\* process-wide lock; an inheritable duplicate exists only while the call that
\* made it holds the lock, and the create call is made only under the lock.
InLaunchSection(c) ==
  ctl[c].pc \in {"dup", "getpw", "create", "find", "defer_close", "defer_unlock"}
C7_LaunchSectionIsExclusive ==
  /\ \A c \in Calls : InLaunchSection(c) => forkLock = c
  /\ \A c, d \in Calls : (c # d /\ InLaunchSection(c)) => ~InLaunchSection(d)
  /\ \A c \in Calls : \A h \in DOMAIN htab :
       (htab[h].inh /\ h \in SeqSet(ctl[c].fd)) => forkLock = c

C7_Witness ==
  /\ ctl[1].pc = "create" /\ forkLock = 1
  /\ ctl[2].pc = "lock"
  /\ \E h \in DOMAIN htab : htab[h].inh

\* C8: two calls share no pipe handle, no buffer content and no credential
\* read; the command of a call receives only the child-facing pipe ends of
\* that call, and no byte of one call's command reaches the other call's
\* buffers.
HandlesOf(c) ==
  SeqSet(ctl[c].closeAfterStart) \cup SeqSet(ctl[c].closeAfterWait) \cup SeqSet(ctl[c].fd)
ChildEnds(c) ==
  <<Obj(c, "stdin", "r"), Obj(c, "stdout", "w"), Obj(c, "stderr", "w")>>
C8_CallsAreIsolated ==
  /\ \A c, d \in Calls : c # d =>
       /\ HandlesOf(c) \cap HandlesOf(d) = {}
       /\ (ctl[c].password.read > 0) => ctl[c].password.read # ctl[d].password.read
  /\ \A c \in Calls :
       /\ \A h \in HandlesOf(c) \cap DOMAIN htab : htab[h].obj[1] = c
       /\ SeqSet(ctl[c].stdout.buf) \subseteq SeqSet(OutBytes(c))
       /\ SeqSet(ctl[c].stderr.buf) \subseteq SeqSet(ErrBytes(c))
       /\ child[c].st # "none" =>
            /\ child[c].stdio = ChildEnds(c)
            /\ child[c].inherited \subseteq SeqSet(ChildEnds(c))
            /\ child[c].cred = ctl[c].password

C8_Witness ==
  /\ child[1].st = "running" /\ child[2].st = "running"
  /\ ctl[1].stdout.buf # <<>> /\ ctl[2].stdout.buf # <<>>
  /\ ctl[1].password.read > 0 /\ ctl[2].password.read > 0

\* C9: each bounded buffer holds at most secretBackendOutputMaxSize bytes,
\* and always exactly the first bytes, up to that number, of all that was
\* written to it.
C9_BuffersAreBounded ==
  \A c \in Calls : \A name \in {"stdout", "stderr"} :
    /\ Len(ctl[c][name].buf) <= secretBackendOutputMaxSize
    /\ ctl[c][name].buf = Truncate(hist[c].written[name])

C9_Witness ==
  \E c \in Calls :
    /\ Len(hist[c].written.stdout) > secretBackendOutputMaxSize
    /\ Len(ctl[c].stdout.buf) = secretBackendOutputMaxSize
    /\ hist[c].written.stderr # <<>>

\* C10: splitting the command line built by makeCmdLine by the parsing rules
\* of the OS gives back the argument strings, in order, as the arguments the
\* command observes, for every command path and argument list.
C10_ArgumentsRoundTrip ==
  probe.built => Tail(probe.argv) = secretBackendArguments

\* The round trip holds when the command path holds no space and no quote.
ArgumentsRoundTripPlainCommand ==
  (probe.built /\ \A i \in 1..Len(secretBackendCommand) :
                    secretBackendCommand[i] \notin {SP, QT})
    => probe.argv = <<secretBackendCommand>> \o secretBackendArguments

\* C11: the credential source fails with the "not found" error whenever the
\* password entry is absent, be it the key or the value named after the user
\* that is missing, and with the read error for every other failed read; an
\* absent entry never yields a credential.
C11_AbsentEntryIsNotFound ==
  \A c \in Calls :
    /\ hist[c].reg \in {"no_key", "no_value"} =>
         /\ ctl[c].startErr = "CredentialNotFound"
         /\ ctl[c].password.secret = ""
    /\ hist[c].reg \in {"key_unreadable", "value_unreadable"} =>
         ctl[c].startErr = "CredentialReadError"

\* The part of C11 that holds: a missing key is "not found", an unreadable
\* key or value is the read error, and no failed read yields a credential.
CredentialErrorsButMissingValue ==
  \A c \in Calls :
    /\ hist[c].reg = "no_key" => ctl[c].startErr = "CredentialNotFound"
    /\ hist[c].reg \in {"key_unreadable", "value_unreadable", "no_value"} =>
         ctl[c].startErr = "CredentialReadError"
    /\ hist[c].reg \notin {"", "present"} => ctl[c].password.secret = ""

\* C12: when process.Wait returned an error, execCommand returns the timeout
\* error exactly when the deadline had passed before the wait returned; a
\* wait error that came before the deadline is returned as the wait error,
\* also when the deadline passes while the relay results are collected.
C12_TimeoutOnlyIfDeadlineBeforeWait ==
  \A c \in Calls :
    (Returned(c) /\ ctl[c].waitErr) =>
      /\ hist[c].ctxAtWait = "deadline" <=> ctl[c].result.err = "TimeoutError"
      /\ hist[c].ctxAtWait = "active" => ctl[c].result.err = "ProcessWaitError"

\* C13: the watcher calls process.Kill at most once, and only when the
\* deadline had passed before process.Wait returned; when the wait returned
\* first, no kill is issued, neither after close(waitDone) nor after
\* execCommand returned and its deferred cancel released the context.
C13_KillOnlyOnDeadlineBeforeWait ==
  \A c \in Calls :
    /\ hist[c].kills <= 1
    /\ (hist[c].kills > 0 /\ hist[c].ctxAtWait # "") => hist[c].ctxAtWait = "deadline"

\* The part of C13 that holds: at most one kill, and never while the context
\* is neither past its deadline nor canceled.
KillAtMostOnceAndNotWhileActive ==
  \A c \in Calls :
    /\ hist[c].kills <= 1
    /\ hist[c].kills > 0 => ctl[c].ctx # "active"

\* A kill issued after execCommand returned with the deadline never passed.
KillAfterReturnReached ==
  \E c \in Calls :
    /\ Returned(c) /\ ctl[c].ctx = "canceled" /\ hist[c].kills = 1
    /\ ctl[c].result.err = NoErr
\* C14: after a successful start the controller closes the handles of
\* closeAfterWait only when process.Wait has returned and each of the three
\* relay goroutines has reported; until then a handle of that list is closed
\* only by its own goroutine, once its copy is over, so the write end of the
\* stdin pipe is never closed before the input copy has finished.
WaitResolved(c) == ctl[c].waitErr \/ ctl[c].state # "none"
RelayClosed(c) ==
  {ctl[c].closeAfterWait[i] : i \in {j \in 1..Len(ctl[c].closeAfterWait) :
                                       task[c][ctl[c].goroutine[j]] = "done"}}
C14_CloseAfterWaitComesLast ==
  \A c \in Calls :
    /\ ctl[c].pc \in {"started", "spawn", "wait", "close_waitdone", "collect",
                      "close_after_wait"}
         => SeqSet(ctl[c].closeAfterWait) \ DOMAIN htab \subseteq RelayClosed(c)
    /\ (ctl[c].pc = "classify" \/ (Returned(c) /\ hist[c].failedAt = ""))
         => /\ WaitResolved(c)
            /\ ctl[c].collected = 3
            /\ \A n \in PipeNames : task[c][n] = "done" /\ hist[c].reports[n] = 1

C14_Witness ==
  \E c \in Calls :
    /\ ctl[c].pc = "classify"
    /\ task[c].sent = Len(ctl[c].inputPayload) /\ task[c].sent > 0
    /\ SeqSet(ctl[c].closeAfterWait) \cap DOMAIN htab = {}
    /\ ctl[c].state = "success"
\* C15: startProcess is called only when the three pipes exist; the parent
\* closes the handles of closeAfterStart only after startProcess has returned,
\* and after a successful start they are closed before a relay goroutine or
\* the watcher is started.
InStartProcess(c) ==
  ctl[c].pc \in {"start", "lock", "dup", "getpw", "create", "find", "defer_close",
                "defer_unlock"}
StartProcessReturned(c) == ctl[c].process # 0 \/ ctl[c].startErr # NoErr
C15_LaunchBetweenPipesAndClose ==
  \A c \in Calls :
    /\ InStartProcess(c) =>
         /\ Len(ctl[c].closeAfterStart) = 3 /\ Len(ctl[c].closeAfterWait) = 3
         /\ SeqSet(ctl[c].closeAfterStart) \cup SeqSet(ctl[c].closeAfterWait)
              \subseteq DOMAIN htab
    /\ child[c].st # "none" => Cardinality(hist[c].created) = 6
    /\ SeqSet(ctl[c].closeAfterStart) \cap ctl[c].closed # {} =>
         StartProcessReturned(c) /\ ~InStartProcess(c)
    /\ (\E n \in {"stdin", "stdout", "stderr", "watcher"} : task[c][n] # "idle") =>
         /\ ctl[c].process # 0
         /\ SeqSet(ctl[c].closeAfterStart) \cap DOMAIN htab = {}

C15_Witness ==
  \E c \in Calls :
    /\ ctl[c].pc = "wait" /\ child[c].st = "running"
    /\ task[c].watcher = "select" /\ task[c].stdout = "copy"
    /\ SeqSet(ctl[c].closeAfterStart) \subseteq ctl[c].closed
    /\ SeqSet(ctl[c].closeAfterWait) \subseteq DOMAIN htab
\* C16: an error reported by a relay goroutine does not end the command, does
\* not make execCommand return before process.Wait has returned, and does not
\* change the result, which follows from the wait error, the state of the
\* deadline and the exit state alone: a command that ended with success is
\* reported as success with the stdout bytes although a relay failed.
C16_RelayErrorsAreIgnored ==
  \A c \in Calls :
    /\ child[c].st = "killed" => ctl[c].ctx # "active"
    /\ (Returned(c) /\ hist[c].failedAt = "") =>
         /\ WaitResolved(c)
         /\ ctl[c].result =
              (IF ctl[c].waitErr
               THEN [bytes |-> <<>>,
                     err |-> IF ctl[c].ctx = "deadline" THEN "TimeoutError"
                             ELSE "ProcessWaitError"]
               ELSE IF ctl[c].state # "success"
               THEN [bytes |-> <<>>, err |-> "NonZeroExitError"]
               ELSE [bytes |-> ctl[c].stdout.buf, err |-> NoErr])

C16_Witness ==
  \E c \in Calls :
    /\ Returned(c) /\ ctl[c].copyError # NoErr
    /\ ~ctl[c].waitErr /\ ctl[c].state = "success" /\ child[c].st = "exited"
    /\ ctl[c].result.err = NoErr /\ ctl[c].result.bytes # <<>>
\* C17: under fair scheduling every call of execCommand returns in the end,
\* also when the command never ends by itself and never closes its standard
\* handles; and the watcher goroutine of every call that started a process
\* ends.
C17_EveryCallReturns ==
  /\ <>Returned(1)
  /\ [](task[1].watcher = "select" => <>(task[1].watcher = "done"))

\* The part of C17 that holds: the call returns unless process.Wait fails,
\* and the watcher always ends.
EveryCallReturnsUnlessWaitFails ==
  /\ <>(Returned(1) \/ ctl[1].waitErr)
  /\ [](task[1].watcher = "select" => <>(task[1].watcher = "done"))

\* The call that never returns: the wait failed, the watcher left through
\* waitDone, the command still runs and the controller waits for errch.
BlockedForeverReached ==
  /\ ctl[1].pc = "collect" /\ ctl[1].waitErr /\ ctl[1].errch = <<>>
  /\ task[1].watcher = "done" /\ hist[1].kills = 0
  /\ child[1].st = "running" /\ child[1].plan.exit = "hang"
  /\ ctl[1].ctx = "deadline"
\* C18: after a successful start execCommand returns only when process.Wait
\* has returned and three results have been received from errch, one from
\* each relay goroutine; each goroutine sends once, and errch always has room
\* for the send; the return does not wait for the watcher.
C18_ReturnJoinsWaitAndRelays ==
  \A c \in Calls :
    /\ (Returned(c) /\ hist[c].failedAt = "") =>
         /\ WaitResolved(c)
         /\ ctl[c].collected = 3 /\ ctl[c].errch = <<>>
         /\ \A n \in PipeNames : hist[c].reports[n] = 1
    /\ \A n \in PipeNames :
         /\ hist[c].reports[n] <= 1
         /\ hist[c].reports[n] = 1 <=> task[c][n] = "done"
    /\ Len(ctl[c].errch) + ctl[c].collected
         = Cardinality({n \in PipeNames : hist[c].reports[n] = 1})
    /\ Len(ctl[c].errch) <= Len(ctl[c].goroutine)

C18_Witness ==
  \E c \in Calls :
    /\ Returned(c) /\ hist[c].failedAt = "" /\ ctl[c].collected = 3
    /\ task[c].watcher = "select"
    /\ ctl[c].copyError # NoErr
\* C19: however startProcess returns (a DuplicateHandle that fails at any of
\* the three handles, a failed credential read, a rejected create call, a
\* failed process lookup, success), every duplicate made so far is closed and
\* the lock is released, the duplicates being closed before the lock is
\* released.
DuplicatesOpen(c) == SeqSet(ctl[c].fd) \cap DOMAIN htab
C19_StartProcessReleasesAll ==
  \A c \in Calls :
    /\ ~InLaunchSection(c) => (forkLock # c /\ DuplicatesOpen(c) = {})
    /\ ctl[c].pc = "defer_unlock" => (forkLock = c /\ DuplicatesOpen(c) = {})
    /\ DuplicatesOpen(c) # {} => forkLock = c

C19_Witness ==
  \E c \in Calls :
    /\ ctl[c].pc = "start_failed" /\ hist[c].failedAt = "dup"
    /\ Len(ctl[c].fd) = 2
    /\ forkLock = 0 /\ DuplicatesOpen(c) = {}

\* C20: when the process was created, no handle that the call acquired is
\* open in the parent once execCommand has returned: the six pipe ends, the
\* duplicates of the standard handles, and the process and thread handles of
\* the ProcessInformation filled in by the create call.
OpenHandlesOf(c) == {h \in DOMAIN htab : htab[h].obj[1] = c}
C20_NoHandleLeftOpen ==
  \A c \in Calls :
    (Returned(c) /\ child[c].st # "none") => OpenHandlesOf(c) = {}

\* The part of C20 that holds: after a start that succeeded the pipe ends
\* and the duplicates are closed, and so is the handle of os.Process unless
\* process.Wait failed.
PipesAndDuplicatesClosed ==
  \A c \in Calls :
    (Returned(c) /\ hist[c].failedAt = "") =>
      /\ PipeHandlesOpen(c) = {} /\ DuplicatesOpen(c) = {}
      /\ ~ctl[c].waitErr => ctl[c].process \notin DOMAIN htab

====
